---- MODULE Spec2Model ----
(***************************************************************************)
(* MeshGuard JavaScript SDK: the Gateway client (src/src/client.ts), the   *)
(* LangChain tool wrappers and the exception classes                       *)
(* (src/src/langchain.ts).                                                 *)
(*                                                                         *)
(* One client, whose configuration is fixed at construction, serves one    *)
(* call at a time.  A call runs its synchronous prefix up to the await of  *)
(* fetch (Call* actions), the Gateway or the transport answers (Deliver,   *)
(* NetworkFail, Timeout) and the continuation of the call runs to its end  *)
(* in the same step, and the caller consumes the outcome (Finish).         *)
(*                                                                         *)
(* Spec               one client, one call at a time, every operation      *)
(* ErrorsSpec         the constructor of PolicyDeniedError over its options*)
(* ToolkitSpec        tools wrapped by governedTool, GovernedTool and      *)
(*                    GovernedToolkit, and changed afterwards              *)
(* ConcurrentSpec     several calls in flight at once on one client        *)
(* ConcurrentFairSpec the same, with queued continuations always run       *)
(***************************************************************************)
EXTENDS Integers, Sequences, FiniteSets, TLC

VARIABLES
    cfg,      \* the client's readonly fields (client.ts:51-55)
    pc,       \* "idle" | "waiting" (awaiting fetch) | "done"
    call,     \* the arguments of the call in progress
    sent,     \* the requests this call handed to fetch, in order
    timer,    \* the timer of MeshGuardClient.fetch: "none" | "armed" | "fired" | "cleared"
    trace,    \* what the call did, in order (enforce, fetch, fn, tool, onDeny ...)
    outcome,  \* the settled promise of the call: Ret(value) or Thr(error)
    nfetch,   \* requests this client has handed to fetch since construction
    tools,    \* the LangChain tool objects, as they are now
    kit,      \* the fields of the GovernedToolkit (langchain.ts:166-170)
    wrappers, \* the governed wrappers built so far, in order
    calls     \* the check calls in flight at once, each with its own locals

vars == <<cfg, pc, call, sent, timer, trace, outcome, nfetch, tools, kit, wrappers, calls>>

\* what one call at a time leaves alone
toolVars == <<tools, kit, wrappers>>

\* what the tool wrappers and the calls in flight leave alone
callVars == <<pc, call, sent, timer, trace, outcome, nfetch>>

-----------------------------------------------------------------------------
(* Bounds *)

\* requests one client sends in a behaviour
MaxFetch == 2

\* calls in flight at once on one client
MaxCalls == 2

\* tools handed to one GovernedToolkit
MaxTools == 2

\* governed wrappers built in a behaviour
MaxWrappers == 2

-----------------------------------------------------------------------------
(* JavaScript values *)

Undefined == "(undefined)"
JsNull == "(null)"

\* v ?? d
Nullish(v) == v \in {Undefined, JsNull}

\* if (v) for a string, undefined or null
Truthy(v) == v \notin {Undefined, JsNull, ""}

\* a settled promise / a completed or thrown evaluation
Ret(v) == [kind |-> "return", val |-> v]
Thr(e) == [kind |-> "throw", err |-> e]

\* an own-property list in insertion order: a sequence of [n, v]
Prop(n, v) == [n |-> n, v |-> v]

HasKey(h, n) == \E i \in 1..Len(h) : h[i].n = n

\* h[n] = v: an existing key keeps its place, a new key is appended
SetKey(h, n, v) ==
    IF HasKey(h, n)
    THEN [i \in 1..Len(h) |-> IF h[i].n = n THEN Prop(n, v) ELSE h[i]]
    ELSE Append(h, Prop(n, v))

RECURSIVE ObjectAssign(_, _)
\* Object.assign(h, extra)
ObjectAssign(h, extra) ==
    IF extra = <<>> THEN h
    ELSE ObjectAssign(SetKey(h, Head(extra).n, Head(extra).v), Tail(extra))

-----------------------------------------------------------------------------
(* Exceptions (src/src/langchain.ts:205-266) *)

PlainError(name, message) ==
    [name |-> name, message |-> message, action |-> Undefined,
     policy |-> Undefined, rule |-> Undefined, reason |-> Undefined]

MeshGuardError(message) == PlainError("MeshGuardError", message)

AuthenticationError(message) == PlainError("AuthenticationError", message)

RateLimitError(message) == PlainError("RateLimitError", message)

DefaultReason == "Access denied by policy"

\* a message that names the rule before the policy
PolicyDeniedMessage_RuleFirst(action, policy, rule, reason) ==
    <<"Action '", action, "' denied">>
    \o (IF Truthy(rule) THEN <<" (rule: ", rule, ")">> ELSE <<>>)
    \o (IF Truthy(policy) THEN <<" by policy '", policy, "'">> ELSE <<>>)
    \o <<": ", reason>>

\* the message is kept as its pieces, in order; their concatenation is the string
PolicyDeniedMessage(action, policy, rule, reason) ==
    <<"Action '", action, "' denied">>
    \o (IF Truthy(policy) THEN <<" by policy '", policy, "'">> ELSE <<>>)
    \o (IF Truthy(rule) THEN <<" (rule: ", rule, ")">> ELSE <<>>)
    \o <<": ", reason>>

\* new PolicyDeniedError({action, policy, rule, reason}); the destructuring
\* default replaces undefined only
PolicyDeniedError(action, policy, rule, reasonOpt) ==
    LET reason == IF reasonOpt = Undefined THEN DefaultReason ELSE reasonOpt
    IN  [name |-> "PolicyDeniedError",
         message |-> PolicyDeniedMessage(action, policy, rule, reason),
         action |-> action, policy |-> policy, rule |-> rule, reason |-> reason]

\* err instanceof PolicyDeniedError
IsPolicyDenied(e) == e.name = "PolicyDeniedError"

\* what the runtime raises: a property read on null, a call of undefined
TypeError(message) == PlainError("TypeError", message)

\* fetch rejections: the network failed, or the AbortController aborted
NetworkError == PlainError("TypeError", <<"fetch failed">>)
AbortError == PlainError("AbortError", <<"This operation was aborted">>)

-----------------------------------------------------------------------------
(* The Gateway's answers *)

Statuses == {200, 201, 400, 401, 403, 429, 500}

BodyTexts ==
    { "",
      "<html>Bad Gateway</html>",
      "null",
      "42",
      "{}",
      "{\"policy\":\"default\"}",
      "{\"policy\":\"strict\",\"rule\":\"no-contacts\",\"message\":\"Denied\"}",
      "{\"action\":\"delete:all\",\"message\":null}",
      "{\"agents\":[{\"id\":\"a1\",\"name\":\"Bot A\"}]}",
      "{\"status\":\"healthy\"}",
      "{\"status\":\"degraded\"}",
      "{\"allowed\":false,\"decision\":\"deny\",\"action\":\"other\",\"traceId\":\"gw-9\"}" }

\* a Response: its status and the text of its body
Response(status, text) == [status |-> status, text |-> text, bodyUsed |-> FALSE]

Responses == {Response(s, t) : s \in Statuses, t \in BodyTexts}

\* Whether JSON.parse(text) throws a SyntaxError
IsJson(text) == text \notin {"", "<html>Bad Gateway</html>"}

\* JSON.parse(text) for the texts that parse: t is the kind of value, o the
\* own properties of an object
JSONparse(text) ==
    CASE text = "null" -> [t |-> "null", o |-> <<>>]
      [] text = "42" -> [t |-> "number", o |-> <<>>]
      [] text = "{}" -> [t |-> "object", o |-> <<>>]
      [] text = "{\"policy\":\"default\"}" ->
            [t |-> "object", o |-> [policy |-> "default"]]
      [] text = "{\"policy\":\"strict\",\"rule\":\"no-contacts\",\"message\":\"Denied\"}" ->
            [t |-> "object",
             o |-> [policy |-> "strict", rule |-> "no-contacts", message |-> "Denied"]]
      [] text = "{\"action\":\"delete:all\",\"message\":null}" ->
            [t |-> "object", o |-> [action |-> "delete:all", message |-> JsNull]]
      [] text = "{\"agents\":[{\"id\":\"a1\",\"name\":\"Bot A\"}]}" ->
            [t |-> "object", o |-> [agents |-> <<[id |-> "a1", name |-> "Bot A"]>>]]
      [] text = "{\"status\":\"healthy\"}" ->
            [t |-> "object", o |-> [status |-> "healthy"]]
      [] text = "{\"status\":\"degraded\"}" ->
            [t |-> "object", o |-> [status |-> "degraded"]]
      [] text = "{\"allowed\":false,\"decision\":\"deny\",\"action\":\"other\",\"traceId\":\"gw-9\"}" ->
            [t |-> "object",
             o |-> [allowed |-> FALSE, decision |-> "deny", action |-> "other",
                    traceId |-> "gw-9"]]

EmptyObject == [t |-> "object", o |-> <<>>]

\* data.f throws a TypeError when data is null
ReadThrows(data) == data.t = "null"

\* data.f when it does not throw: undefined unless f is an own property
Get(data, f) == IF f \in DOMAIN data.o THEN data.o[f] ELSE Undefined

NullReadError == TypeError(<<"Cannot read properties of null">>)

-----------------------------------------------------------------------------
(* MeshGuardClient: internal helpers (src/src/client.ts:76-140) *)

DefaultGatewayUrl == "http://localhost:3100"

DefaultTimeout == 30000

\* header values are kept as their pieces, in order
headers(c, includeAuth) ==
    LET h == <<Prop("X-MeshGuard-Trace-ID", <<c.traceId>>)>>
    IN  IF includeAuth /\ Truthy(c.agentToken)
        THEN SetKey(h, "Authorization", <<"Bearer ", c.agentToken>>)
        ELSE h

\* adminHeaders without the check of the token
adminHeaders_NoCheck(c) ==
    Ret(<<Prop("X-Admin-Token", <<c.adminToken>>),
          Prop("X-MeshGuard-Trace-ID", <<c.traceId>>)>>)

adminHeaders(c) ==
    IF ~Truthy(c.adminToken)
    THEN Thr(AuthenticationError(<<"Admin token required for this operation">>))
    ELSE Ret(<<Prop("X-Admin-Token", <<c.adminToken>>),
               Prop("X-MeshGuard-Trace-ID", <<c.traceId>>)>>)

safeJson(text) ==
    IF text = "" THEN EmptyObject
    ELSE IF ~IsJson(text) THEN EmptyObject
    ELSE JSONparse(text)

\* the 403 branch of handleResponse, given the parsed body
deniedResponse(data) ==
    IF ReadThrows(data) THEN Thr(NullReadError)
    ELSE Thr(PolicyDeniedError(
            IF Nullish(Get(data, "action")) THEN "unknown" ELSE Get(data, "action"),
            Get(data, "policy"),
            Get(data, "rule"),
            IF Nullish(Get(data, "message")) THEN DefaultReason
            ELSE Get(data, "message")))

handleResponse(response) ==
    IF response.status = 401
    THEN Thr(AuthenticationError(<<"Invalid or expired token">>))
    ELSE IF response.status = 403
    THEN deniedResponse(safeJson(response.text))
    ELSE IF response.status = 429
    THEN Thr(RateLimitError(<<"Rate limit exceeded">>))
    ELSE IF response.status >= 400
    THEN Thr(MeshGuardError(
            <<"Request failed: ", ToString(response.status), " ", response.text>>))
    ELSE Ret(safeJson(response.text))

-----------------------------------------------------------------------------
(* MeshGuardClient: core governance (src/src/client.ts:151-232) *)

\* a PolicyDecision: each return of check writes allowed and decision as
\* literals of its own
Decision(allowed, action, decision, policy, rule, reason, traceId) ==
    [allowed |-> allowed, action |-> action, decision |-> decision,
     policy |-> policy, rule |-> rule, reason |-> reason, traceId |-> traceId]

\* the request check hands to fetch
checkRequest(c, action, resource) ==
    [url |-> <<c.gatewayUrl, "/proxy/check">>, method |-> "GET",
     headers |->
        IF Truthy(resource)
        THEN SetKey(SetKey(headers(c, TRUE), "X-MeshGuard-Action", <<action>>),
                    "X-MeshGuard-Resource", <<resource>>)
        ELSE SetKey(headers(c, TRUE), "X-MeshGuard-Action", <<action>>),
     body |-> Undefined]

\* a 403 branch that copies the body into the decision
checkDenied_Echo(c, action, data) ==
    IF ReadThrows(data) THEN Thr(NullReadError)
    ELSE Ret(Decision(FALSE,
                      IF Nullish(Get(data, "action")) THEN action
                      ELSE Get(data, "action"),
                      "deny", Get(data, "policy"), Get(data, "rule"),
                      Get(data, "message"),
                      IF Nullish(Get(data, "traceId")) THEN c.traceId
                      ELSE Get(data, "traceId")))

\* the 403 branch of check, given the parsed body
checkDenied(c, action, data) ==
    IF ReadThrows(data) THEN Thr(NullReadError)
    ELSE Ret(Decision(FALSE, action, "deny", Get(data, "policy"), Get(data, "rule"),
                      Get(data, "message"), c.traceId))

\* check after handleResponse has settled to hr
checkAllowed(c, action, hr) ==
    IF hr.kind = "throw" THEN hr
    ELSE IF ReadThrows(hr.val) THEN Thr(NullReadError)
    ELSE Ret(Decision(TRUE, action, "allow", Get(hr.val, "policy"), Undefined, Undefined,
                      c.traceId))

\* the try block of check after the await of fetch; fr is what fetch settled to
checkTry(c, action, fr) ==
    IF fr.kind = "throw" THEN fr
    ELSE IF fr.val.status = 403
    THEN checkDenied(c, action, safeJson(fr.val.text))
    ELSE checkAllowed(c, action, handleResponse(fr.val))

\* the catch clause of check, given what the try block settled to
checkCatch(c, action, r) ==
    IF r.kind = "throw" /\ IsPolicyDenied(r.err)
    THEN Ret(Decision(FALSE, action, "deny", r.err.policy, r.err.rule, r.err.reason,
                      c.traceId))
    ELSE r

\* check from the point fetch settles
check(c, action, fr) == checkCatch(c, action, checkTry(c, action, fr))

\* enforce that returns a deny decision instead of throwing
enforceDecision_NoThrow(action, d) == d

\* enforce once check has settled to d
enforceDecision(action, d) ==
    IF d.kind = "throw" THEN d
    ELSE IF ~d.val.allowed
    THEN Thr(PolicyDeniedError(action, d.val.policy, d.val.rule, d.val.reason))
    ELSE d

\* enforce from the point fetch settles
enforce(c, action, fr) == enforceDecision(action, check(c, action, fr))

\* one entry of the call's trace
Ev(name, data) == [ev |-> name, d |-> data]

\* what a callback does when invoked: returns a value, returns a promise that
\* resolves or rejects, or throws synchronously
FnError == PlainError("Error", <<"fn failed">>)

FnBehaviours ==
    { [k |-> "return", v |-> 42], [k |-> "resolve", v |-> 42],
      [k |-> "throw", e |-> FnError], [k |-> "reject", e |-> FnError] }

\* what an async function settles to when it returns the callback's result
Settle(beh) == IF beh.k \in {"return", "resolve"} THEN Ret(beh.v) ELSE Thr(beh.e)

\* govern that does not wait for the verdict: fn runs whatever enforce did
governRun_Always(e, fnBeh) ==
    [out |-> Settle(fnBeh), ev |-> <<Ev("enforced", e), Ev("fn", fnBeh)>>]

\* govern once enforce has settled to e; out is what the promise settles to,
\* ev the calls made on the way
governRun(e, fnBeh) ==
    IF e.kind = "throw"
    THEN [out |-> e, ev |-> <<Ev("enforced", e)>>]
    ELSE [out |-> Settle(fnBeh), ev |-> <<Ev("enforced", e), Ev("fn", fnBeh)>>]

\* govern from the point fetch settles
govern(c, action, fr, fnBeh) == governRun(enforce(c, action, fr), fnBeh)

-----------------------------------------------------------------------------
(* MeshGuardClient: proxy requests (src/src/client.ts:241-288) *)

\* String.prototype.toLowerCase on the header names in use
Lower(n) ==
    CASE n = "X-MeshGuard-Action" -> "x-meshguard-action"
      [] n = "X-MeshGuard-Trace-ID" -> "x-meshguard-trace-id"
      [] n = "X-MeshGuard-Resource" -> "x-meshguard-resource"
      [] n = "X-Admin-Token" -> "x-admin-token"
      [] n = "Authorization" -> "authorization"
      [] n = "Content-Type" -> "content-type"
      [] OTHER -> n

\* Object.fromEntries(headers.entries()): a Headers object lists its names in
\* lower case
fromEntries(entries) == [i \in 1..Len(entries) |-> Prop(Lower(entries[i].n), entries[i].v)]

\* the headers a caller may pass in init: none, a plain record, or a Headers object
NoInit == [form |-> "none", entries |-> <<>>]

Inits ==
    { NoInit,
      [form |-> "record", entries |-> <<Prop("Content-Type", <<"application/json">>)>>],
      [form |-> "record", entries |-> <<Prop("X-MeshGuard-Action", <<"admin:all">>)>>],
      [form |-> "record", entries |-> <<Prop("X-MeshGuard-Trace-ID", <<"spoofed">>)>>],
      [form |-> "Headers", entries |-> <<Prop("X-MeshGuard-Action", <<"admin:all">>)>>] }

\* path.replace(/^\/+/, "") on the paths in use
StripLeadingSlashes(path) ==
    CASE path = "/api/users" -> "api/users"
      [] path = "//api/users" -> "api/users"
      [] OTHER -> path

\* the headers of request: headers() and the action, then the caller's merged in
requestHeaders(c, action, init) ==
    LET h == SetKey(headers(c, TRUE), "X-MeshGuard-Action", <<action>>)
    IN  IF init.form = "none" THEN h
        ELSE ObjectAssign(h, IF init.form = "Headers" THEN fromEntries(init.entries)
                             ELSE init.entries)

\* the request that request hands to fetch
requestRequest(c, method, path, action, init) ==
    [url |-> <<c.gatewayUrl, "/proxy/", StripLeadingSlashes(path)>>, method |-> method,
     headers |-> requestHeaders(c, action, init), body |-> Undefined]

\* request once handleResponse has settled to hr
requestReturn(response, hr) ==
    IF hr.kind = "throw" THEN hr ELSE Ret([response EXCEPT !.bodyUsed = TRUE])

\* request from the point fetch settles
request(fr) ==
    IF fr.kind = "throw" THEN fr ELSE requestReturn(fr.val, handleResponse(fr.val))

\* the value of header lname as the Gateway reads it: names are matched without
\* case, and the values of a repeated name are joined in order
RECURSIVE WireValue(_, _)
WireValue(h, lname) ==
    IF h = <<>> THEN <<>>
    ELSE (IF Lower(Head(h).n) = lname THEN <<Head(h).v>> ELSE <<>>)
         \o WireValue(Tail(h), lname)

-----------------------------------------------------------------------------
(* MeshGuardClient: admin operations (src/src/client.ts:315-377) *)

AdminOps == {"listAgents", "createAgent", "revokeAgent", "listPolicies", "getAuditLog"}

DefaultAuditLimit == 50

\* the options a caller passes to an admin operation
AdminOptions(op) ==
    CASE op = "createAgent" ->
            { [name |-> "New Bot"],
              [name |-> "New Bot", trustTier |-> "untrusted", tags |-> <<"prod">>] }
      [] op = "revokeAgent" -> { [agentId |-> "a1"] }
      [] op = "getAuditLog" -> { <<>>, [limit |-> 10, decision |-> "deny"] }
      [] OTHER -> { <<>> }

\* the request an admin operation hands to fetch, given the admin headers
adminRequest(c, op, options, h) ==
    CASE op = "listAgents" ->
            [url |-> <<c.gatewayUrl, "/admin/agents">>, method |-> "GET",
             headers |-> h, body |-> Undefined]
      [] op = "createAgent" ->
            [url |-> <<c.gatewayUrl, "/admin/agents">>, method |-> "POST",
             headers |-> SetKey(h, "Content-Type", <<"application/json">>),
             body |-> [name |-> options.name,
                       trustTier |-> IF "trustTier" \in DOMAIN options
                                     THEN options.trustTier ELSE "verified",
                       tags |-> IF "tags" \in DOMAIN options THEN options.tags ELSE <<>>]]
      [] op = "revokeAgent" ->
            [url |-> <<c.gatewayUrl, "/admin/agents/", options.agentId>>,
             method |-> "DELETE", headers |-> h, body |-> Undefined]
      [] op = "listPolicies" ->
            [url |-> <<c.gatewayUrl, "/admin/policies">>, method |-> "GET",
             headers |-> h, body |-> Undefined]
      [] op = "getAuditLog" ->
            [url |-> <<c.gatewayUrl, "/admin/audit?", "limit=",
                       ToString(IF "limit" \in DOMAIN options THEN options.limit
                                ELSE DefaultAuditLimit)>>
                     \o (IF "decision" \in DOMAIN options
                         THEN <<"&decision=", options.decision>> ELSE <<>>),
             method |-> "GET", headers |-> h, body |-> Undefined]

\* one element of listAgents' result
AgentOf(a) ==
    [id |-> IF "id" \in DOMAIN a THEN a.id ELSE Undefined,
     name |-> IF "name" \in DOMAIN a THEN a.name ELSE Undefined,
     trustTier |-> IF "trustTier" \in DOMAIN a THEN a.trustTier ELSE Undefined,
     tags |-> IF "tags" \in DOMAIN a THEN a.tags ELSE <<>>,
     orgId |-> IF "orgId" \in DOMAIN a THEN a.orgId ELSE Undefined]

\* data.f ?? [] for a list-valued property
ListOf(data, f) == IF f \in DOMAIN data.o THEN data.o[f] ELSE <<>>

\* an admin operation once handleResponse has settled to hr
adminResult(op, hr) ==
    IF hr.kind = "throw" THEN hr
    ELSE CASE op = "createAgent" -> hr
           [] op = "revokeAgent" -> Ret(Undefined)
           [] op = "listAgents" ->
                 IF ReadThrows(hr.val) THEN Thr(NullReadError)
                 ELSE Ret([i \in 1..Len(ListOf(hr.val, "agents")) |->
                              AgentOf(ListOf(hr.val, "agents")[i])])
           [] op = "listPolicies" ->
                 IF ReadThrows(hr.val) THEN Thr(NullReadError)
                 ELSE Ret(ListOf(hr.val, "policies"))
           [] op = "getAuditLog" ->
                 IF ReadThrows(hr.val) THEN Thr(NullReadError)
                 ELSE Ret(ListOf(hr.val, "entries"))

\* an admin operation from the point fetch settles
adminOp(op, fr) ==
    IF fr.kind = "throw" THEN fr ELSE adminResult(op, handleResponse(fr.val))

-----------------------------------------------------------------------------
(* MeshGuardClient: health (src/src/client.ts:295-308) *)

\* the request health hands to fetch: the URL alone, no init
healthRequest(c) ==
    [url |-> <<c.gatewayUrl, "/health">>, method |-> "GET", headers |-> <<>>,
     body |-> Undefined]

\* response.json() rejects when the body does not parse
JsonSyntaxError == PlainError("SyntaxError", <<"Unexpected token in JSON">>)

\* health from the point fetch settles: the status of the response is not read
health(fr) ==
    IF fr.kind = "throw" THEN fr
    ELSE IF ~IsJson(fr.val.text) THEN Thr(JsonSyntaxError)
    ELSE Ret(JSONparse(fr.val.text))

\* isHealthy that lets the failure of health through
isHealthyResult_NoCatch(h) ==
    IF h.kind = "throw" THEN h
    ELSE IF ReadThrows(h.val) THEN Thr(NullReadError)
    ELSE Ret(Get(h.val, "status") = "healthy")

\* isHealthy once health has settled to h: the catch clause covers the await
\* and the read of h.status
isHealthyResult(h) ==
    IF h.kind = "throw" THEN Ret(FALSE)
    ELSE IF ReadThrows(h.val) THEN Ret(FALSE)
    ELSE Ret(Get(h.val, "status") = "healthy")

\* isHealthy from the point fetch settles
isHealthy(fr) == isHealthyResult(health(fr))

-----------------------------------------------------------------------------
(* Tool governance (src/src/langchain.ts:53-141) *)

ToolError == PlainError("Error", <<"tool failed">>)

\* a wrapped tool may itself be governed and fail with its own denial
ToolDenied == PolicyDeniedError("inner:action", Undefined, Undefined, Undefined)

HandlerError == PlainError("Error", <<"handler failed">>)

ToolBehaviours ==
    { [k |-> "resolve", v |-> "tool-result"],
      [k |-> "reject", e |-> ToolError], [k |-> "reject", e |-> ToolDenied],
      [k |-> "throw", e |-> ToolError], [k |-> "throw", e |-> ToolDenied] }

DenyBehaviours ==
    { [k |-> "return", v |-> "blocked"], [k |-> "throw", e |-> HandlerError] }

UndefinedCallError ==
    TypeError(<<"Cannot read properties of undefined (reading 'apply')">>)

\* a catch clause that hands every error to the handler
toolCatch_All(t, tried, denyBeh) ==
    IF tried.caught /\ t.x.onDeny
    THEN [out |-> Settle(denyBeh),
          ev |-> tried.ev \o <<Ev("onDeny", [err |-> tried.out.err,
                                             args |-> t.x.args, beh |-> denyBeh])>>]
    ELSE [out |-> tried.out, ev |-> tried.ev]

\* the catch clause of both wrappers: tried is what the try block did, and
\* whether it left by a throw (a rejected promise returned from the try block
\* is not caught; a synchronous throw is)
toolCatch(t, tried, denyBeh) ==
    IF tried.caught /\ IsPolicyDenied(tried.out.err) /\ t.x.onDeny
    THEN [out |-> Settle(denyBeh),
          ev |-> tried.ev \o <<Ev("onDeny", [err |-> tried.out.err,
                                             args |-> t.x.args, beh |-> denyBeh])>>]
    ELSE [out |-> tried.out, ev |-> tried.ev]

\* a try block that invokes the tool without regard to what enforce did
governedToolTry_FailOpen(t, e, toolBeh) ==
    [out |-> Settle(toolBeh),
     ev |-> <<Ev("enforced", e),
              Ev("tool", [method |-> t.x.prop, args |-> t.x.args, beh |-> toolBeh])>>,
     caught |-> toolBeh.k = "throw"]

\* the try block of the function the Proxy of governedTool returns for invoke /
\* call, once enforce has settled to e.  t: the wrapper's action, the
\* intercepted property, the arguments, whether a handler was given and whether
\* the tool has a call method.
governedToolTry(t, e, toolBeh) ==
    IF e.kind = "throw"
    THEN [out |-> e, ev |-> <<Ev("enforced", e)>>, caught |-> TRUE]
    ELSE IF t.x.prop = "call" /\ ~t.x.hasCall
    THEN [out |-> Thr(UndefinedCallError), ev |-> <<Ev("enforced", e)>>,
          caught |-> TRUE]
    ELSE [out |-> Settle(toolBeh),
          ev |-> <<Ev("enforced", e),
                   Ev("tool", [method |-> t.x.prop, args |-> t.x.args,
                               beh |-> toolBeh])>>,
          caught |-> toolBeh.k = "throw"]

\* the intercepted invoke / call of governedTool from the point fetch settles
governedTool(c, t, fr, toolBeh, denyBeh) ==
    toolCatch(t, governedToolTry(t, enforce(c, t.action, fr), toolBeh), denyBeh)

\* the try block of GovernedTool.invoke once enforce has settled to e
GovernedToolTry(t, e, toolBeh) ==
    IF e.kind = "throw"
    THEN [out |-> e, ev |-> <<Ev("enforced", e)>>, caught |-> TRUE]
    ELSE [out |-> Settle(toolBeh),
          ev |-> <<Ev("enforced", e),
                   Ev("tool", [method |-> "invoke", args |-> t.x.args,
                               beh |-> toolBeh])>>,
          caught |-> toolBeh.k = "throw"]

\* GovernedTool.invoke from the point fetch settles
GovernedToolInvoke(c, t, fr, toolBeh, denyBeh) ==
    toolCatch(t, GovernedToolTry(t, enforce(c, t.action, fr), toolBeh), denyBeh)

\* GovernedTool.call
GovernedToolCall(c, t, fr, toolBeh, denyBeh) ==
    GovernedToolInvoke(c, t, fr, toolBeh, denyBeh)

-----------------------------------------------------------------------------
(* The client and its calls *)

Actions == {"read:contacts", "write:secrets"}

Resources == {Undefined, "/etc/config"}

Methods == {"GET", "POST"}

Paths == {"/api/users", "api/users"}

ToolArgs == { <<"query", Undefined>>, <<"query", "config">> }

\* crypto.randomUUID()
UUIDs == {"uuid-1"}

\* the options of the constructor and the environment it falls back to
OptionSets ==
    { [agentToken |-> Undefined, adminToken |-> Undefined, traceId |-> Undefined],
      [agentToken |-> "tok_abc", adminToken |-> "adm_xyz", traceId |-> "trace-1"],
      [agentToken |-> "tok_abc", adminToken |-> "", traceId |-> Undefined] }

Envs == { [MESHGUARD_ADMIN_TOKEN |-> Undefined],
          [MESHGUARD_ADMIN_TOKEN |-> "adm_env"] }

\* new MeshGuardClient(options)
MeshGuardClient(options, env, uuid) ==
    [gatewayUrl |-> DefaultGatewayUrl,
     agentToken |-> options.agentToken,
     adminToken |-> IF Nullish(options.adminToken) THEN env.MESHGUARD_ADMIN_TOKEN
                    ELSE options.adminToken,
     timeout |-> DefaultTimeout,
     traceId |-> IF Nullish(options.traceId) THEN uuid ELSE options.traceId]

NoCall == [op |-> "none", action |-> Undefined, resource |-> Undefined, x |-> <<>>]

NoOutcome == [kind |-> "pending"]

MkCall(op, action, resource, x) ==
    [op |-> op, action |-> action, resource |-> resource, x |-> x]

Init ==
    /\ \E o \in OptionSets, env \in Envs, u \in UUIDs : cfg = MeshGuardClient(o, env, u)
    /\ pc = "idle"
    /\ call = NoCall
    /\ sent = <<>>
    /\ timer = "none"
    /\ trace = <<>>
    /\ outcome = NoOutcome
    /\ nfetch = 0
    /\ tools = <<>>
    /\ kit = <<>>
    /\ wrappers = <<>>
    /\ calls = <<>>

\* MeshGuardClient.fetch up to its await: the timer is armed and the request
\* handed to the transport
Fetch(cl, req, before) ==
    /\ nfetch < MaxFetch
    /\ pc' = "waiting"
    /\ call' = cl
    /\ sent' = <<req>>
    /\ timer' = "armed"
    /\ trace' = before \o <<Ev("fetch", req)>>
    /\ outcome' = NoOutcome
    /\ nfetch' = nfetch + 1
    /\ UNCHANGED <<cfg, toolVars, calls>>

CallCheck ==
    /\ pc = "idle"
    /\ \E a \in Actions, r \in Resources :
          Fetch(MkCall("check", a, r, <<>>), checkRequest(cfg, a, r), <<>>)

CallEnforce ==
    /\ pc = "idle"
    /\ \E a \in Actions, r \in Resources :
          Fetch(MkCall("enforce", a, r, <<>>), checkRequest(cfg, a, r),
                <<Ev("check", a)>>)

CallGovern ==
    /\ pc = "idle"
    /\ \E a \in Actions, r \in Resources :
          Fetch(MkCall("govern", a, r, <<>>), checkRequest(cfg, a, r),
                <<Ev("enforce", a), Ev("check", a)>>)

\* request, and get / post / put / delete, which pass their method to it
CallRequest ==
    /\ pc = "idle"
    /\ \E m \in Methods, p \in Paths, a \in Actions, i \in Inits :
          Fetch(MkCall("request", a, Undefined, [method |-> m, path |-> p, init |-> i]),
                requestRequest(cfg, m, p, a, i), <<>>)

\* an admin operation: adminHeaders() is evaluated before fetch is called
CallAdmin ==
    /\ pc = "idle"
    /\ \E op \in AdminOps : \E options \in AdminOptions(op) :
          LET h == adminHeaders(cfg)
              cl == MkCall(op, Undefined, Undefined, options)
          IN  IF h.kind = "throw"
              THEN /\ pc' = "done"
                   /\ call' = cl
                   /\ outcome' = h
                   /\ trace' = <<>>
                   /\ sent' = <<>>
                   /\ timer' = "none"
                   /\ UNCHANGED <<cfg, nfetch, toolVars, calls>>
              ELSE Fetch(cl, adminRequest(cfg, op, options, h.val), <<>>)

\* health and isHealthy
CallHealth ==
    /\ pc = "idle"
    /\ \E op \in {"health", "isHealthy"} :
          Fetch(MkCall(op, Undefined, Undefined, <<>>), healthRequest(cfg),
                IF op = "isHealthy" THEN <<Ev("health", <<>>)>> ELSE <<>>)

\* invoke or call on a governed tool, through either wrapper
CallTool ==
    /\ pc = "idle"
    /\ \E w \in {"governedTool", "GovernedTool"}, a \in Actions,
          prop \in {"invoke", "call"}, hasCall \in BOOLEAN, onDeny \in BOOLEAN,
          args \in ToolArgs :
          Fetch(MkCall(w, a, Undefined,
                       [prop |-> prop, hasCall |-> hasCall, onDeny |-> onDeny,
                        args |-> args]),
                checkRequest(cfg, a, Undefined),
                <<Ev("enforce", a), Ev("check", a)>>)

\* the rest of the call once fetch has settled to fr
Continue(c, cl, fr, fnBeh, toolBeh, denyBeh) ==
    CASE cl.op = "check" -> [out |-> check(c, cl.action, fr), ev |-> <<>>]
      [] cl.op = "enforce" -> [out |-> enforce(c, cl.action, fr), ev |-> <<>>]
      [] cl.op = "govern" -> govern(c, cl.action, fr, fnBeh)
      [] cl.op = "request" -> [out |-> request(fr), ev |-> <<>>]
      [] cl.op \in AdminOps -> [out |-> adminOp(cl.op, fr), ev |-> <<>>]
      [] cl.op = "health" -> [out |-> health(fr), ev |-> <<>>]
      [] cl.op = "isHealthy" -> [out |-> isHealthy(fr), ev |-> <<>>]
      [] cl.op = "governedTool" -> governedTool(c, cl, fr, toolBeh, denyBeh)
      [] cl.op = "GovernedTool" ->
            IF cl.x.prop = "call" THEN GovernedToolCall(c, cl, fr, toolBeh, denyBeh)
            ELSE GovernedToolInvoke(c, cl, fr, toolBeh, denyBeh)

\* the callbacks a call can reach
FnChoices(cl) == IF cl.op = "govern" THEN FnBehaviours ELSE {[k |-> "return", v |-> 42]}

ToolChoices(cl) ==
    IF cl.op \in {"governedTool", "GovernedTool"} THEN ToolBehaviours
    ELSE {[k |-> "resolve", v |-> "tool-result"]}

DenyChoices(cl) ==
    IF cl.op \in {"governedTool", "GovernedTool"} /\ cl.x.onDeny THEN DenyBehaviours
    ELSE {[k |-> "return", v |-> "blocked"]}

\* a call that sends its request once more when the first attempt failed
End_RetryOnce(k, ev, timerAfter) ==
    IF k.out.kind = "throw" /\ Len(sent) = 1 /\ nfetch < MaxFetch
    THEN /\ pc' = "waiting"
         /\ outcome' = NoOutcome
         /\ sent' = sent \o sent
         /\ trace' = trace \o <<ev, Ev("fetch", sent[1])>>
         /\ timer' = "armed"
         /\ nfetch' = nfetch + 1
         /\ UNCHANGED <<cfg, call, toolVars, calls>>
    ELSE /\ pc' = "done"
         /\ outcome' = k.out
         /\ trace' = trace \o <<ev>> \o k.ev
         /\ timer' = timerAfter
         /\ UNCHANGED <<cfg, call, sent, nfetch, toolVars, calls>>

\* the call ends with result k
End(k, ev, timerAfter) ==
    /\ pc' = "done"
    /\ outcome' = k.out
    /\ trace' = trace \o <<ev>> \o k.ev
    /\ timer' = timerAfter
    /\ UNCHANGED <<cfg, call, sent, nfetch, toolVars, calls>>

Settled(fr, ev, timerAfter) ==
    \E fb \in FnChoices(call), tb \in ToolChoices(call), db \in DenyChoices(call) :
        End(Continue(cfg, call, fr, fb, tb, db), ev, timerAfter)

\* the Gateway answers: fetch resolves, the timer is cleared, the call runs on
Deliver ==
    /\ pc = "waiting"
    /\ \E resp \in Responses : Settled(Ret(resp), Ev("response", resp), "cleared")

\* the transport fails: fetch rejects
NetworkFail ==
    /\ pc = "waiting"
    /\ Settled(Thr(NetworkError), Ev("fetchfail", NetworkError), "cleared")

\* the timer fires first: the controller aborts the request and fetch rejects
Timeout ==
    /\ pc = "waiting"
    /\ timer = "armed"
    /\ Settled(Thr(AbortError), Ev("abort", AbortError), "fired")

\* the caller has the outcome; the client is ready for the next call
Finish ==
    /\ pc = "done"
    /\ pc' = "idle"
    /\ call' = NoCall
    /\ sent' = <<>>
    /\ timer' = "none"
    /\ trace' = <<>>
    /\ outcome' = NoOutcome
    /\ UNCHANGED <<cfg, nfetch, toolVars, calls>>

Next ==
    \/ CallCheck
    \/ CallEnforce
    \/ CallGovern
    \/ CallRequest
    \/ CallAdmin
    \/ CallHealth
    \/ CallTool
    \/ Deliver
    \/ NetworkFail
    \/ Timeout
    \/ Finish

Spec == Init /\ [][Next]_vars

-----------------------------------------------------------------------------
(* Constructing a PolicyDeniedError (src/src/langchain.ts:238-257) *)

\* the options a caller may construct the error with: strings, or left out
ErrorActions == {"write:email", "read:contacts", ""}

ErrorPolicies == {Undefined, "", "strict"}

ErrorRules == {Undefined, "", "no-email"}

ErrorReasons == {Undefined, "", "Email sending blocked"}

\* the state outside the call, at rest
AtRest(c) ==
    /\ cfg = c
    /\ sent = <<>>
    /\ timer = "none"
    /\ trace = <<>>
    /\ nfetch = 0

DefaultClient ==
    MeshGuardClient([agentToken |-> "tok_abc", adminToken |-> Undefined,
                     traceId |-> "trace-1"],
                    [MESHGUARD_ADMIN_TOKEN |-> Undefined], "uuid-1")

ErrorsInit ==
    /\ AtRest(DefaultClient)
    /\ pc = "idle"
    /\ \E a \in ErrorActions, p \in ErrorPolicies, r \in ErrorRules,
          rs \in ErrorReasons :
          call = MkCall("new PolicyDeniedError", a, Undefined,
                        [policy |-> p, rule |-> r, reason |-> rs])
    /\ outcome = NoOutcome
    /\ tools = <<>>
    /\ kit = <<>>
    /\ wrappers = <<>>
    /\ calls = <<>>

\* new PolicyDeniedError(options)
NewPolicyDeniedError ==
    /\ pc = "idle"
    /\ pc' = "done"
    /\ outcome' = Ret(PolicyDeniedError(call.action, call.x.policy, call.x.rule,
                                        call.x.reason))
    /\ UNCHANGED <<cfg, call, sent, timer, trace, nfetch, toolVars, calls>>

ErrorsNext == NewPolicyDeniedError

ErrorsSpec == ErrorsInit /\ [][ErrorsNext]_vars

-----------------------------------------------------------------------------
(* Wrapping tools: governedTool, GovernedTool, GovernedToolkit               *)
(* (src/src/langchain.ts:20-26, 53-81, 100-122, 165-203)                   *)

ToolNames == {"search", "calculator", "constructor"}

\* the properties of a tool other than invoke and call: the two of the
\* LangChainTool interface and one attribute more
ToolProps == {"name", "description", "returnDirect"}

\* a tool as the caller made it
Tool(name) == [name |-> name, description |-> "A tool", returnDirect |-> "true"]

RECURSIVE ToolLists(_)
\* the arrays of n tools
ToolLists(n) ==
    IF n = 0 THEN { <<>> }
    ELSE {Append(l, Tool(nm)) : l \in ToolLists(n - 1), nm \in ToolNames}

\* what a caller assigns to a property of a tool after wrapping it
Assigned(p) ==
    CASE p = "name" -> "renamed"
      [] p = "description" -> "A better tool"
      [] p = "returnDirect" -> "false"

\* the names every plain object inherits from Object.prototype
ObjectPrototype == {"constructor", "toString"}

\* obj[n] on a plain object: an own property, else an inherited one, else undefined
Lookup(obj, n) ==
    IF n \in DOMAIN obj THEN obj[n]
    ELSE IF n \in ObjectPrototype THEN "(function)"
    ELSE Undefined

\* the options of new GovernedToolkit, tools aside; a key left out is undefined
ToolkitOptions ==
    { [onDeny |-> FALSE],
      [onDeny |-> TRUE, actionMap |-> [search |-> "read:web_search"]],
      [onDeny |-> FALSE, defaultAction |-> "run:any",
       actionMap |-> [search |-> "read:web_search", calculator |-> "execute:math"]],
      [onDeny |-> FALSE, defaultAction |-> "run:any", actionMap |-> <<>>] }

\* new GovernedToolkit(options): the array of tools is held by reference
GovernedToolkit(options) ==
    [actionMap |-> IF "actionMap" \in DOMAIN options THEN options.actionMap ELSE <<>>,
     defaultAction |-> IF "defaultAction" \in DOMAIN options THEN options.defaultAction
                       ELSE "execute:tool",
     onDeny |-> options.onDeny]

\* GovernedToolkit.getAction once the lookup has given v
getActionOr(v, defaultAction) == IF Nullish(v) THEN defaultAction ELSE v

\* GovernedToolkit.getAction(tool)
getAction(k, tool) == getActionOr(Lookup(k.actionMap, tool.name), k.defaultAction)

\* governedTool(action, client, tool, onDeny): a Proxy whose target is tool i
governedToolProxy(action, i, onDeny) ==
    [kind |-> "Proxy", by |-> "governedTool", tool |-> i, action |-> action,
     onDeny |-> onDeny]

\* new GovernedTool({tool, action, client, onDeny}): name and description are
\* copied from the tool
GovernedToolNew(tool, i, action, onDeny, by) ==
    [kind |-> "GovernedTool", by |-> by, tool |-> i, action |-> action,
     onDeny |-> onDeny, name |-> tool.name, description |-> tool.description]

\* GovernedToolkit.getTools()
getTools(k, ts) ==
    [i \in 1..Len(ts) |->
        GovernedToolNew(ts[i], i, getAction(k, ts[i]), k.onDeny, "getTools")]

\* wrapper[p] for a property p other than invoke and call: the get trap of the
\* Proxy reads the target; a GovernedTool has the fields of its class
ReadProperty(w, ts, p) ==
    IF w.kind = "Proxy" THEN ts[w.tool][p]
    ELSE CASE p = "name" -> w.name
           [] p = "description" -> w.description
           [] p = "action" -> w.action
           [] OTHER -> Undefined

ToolkitInit ==
    /\ AtRest(DefaultClient)
    /\ pc = "idle"
    /\ outcome = NoOutcome
    /\ calls = <<>>
    /\ wrappers = <<>>
    /\ \E n \in 0..MaxTools : tools \in ToolLists(n)
    /\ \E o \in ToolkitOptions :
          /\ call = MkCall("new GovernedToolkit", Undefined, Undefined, o)
          /\ kit = GovernedToolkit(o)

\* governedTool(action, client, tools[i])
WrapGovernedTool ==
    /\ Len(wrappers) < MaxWrappers
    /\ \E i \in 1..Len(tools) :
          wrappers' = Append(wrappers, governedToolProxy("read:web_search", i, FALSE))
    /\ UNCHANGED <<cfg, callVars, tools, kit, calls>>

\* new GovernedTool({tool: tools[i], action, client})
NewGovernedTool ==
    /\ Len(wrappers) < MaxWrappers
    /\ \E i \in 1..Len(tools) :
          wrappers' = Append(wrappers, GovernedToolNew(tools[i], i, "read:web_search",
                                                       FALSE, "GovernedTool"))
    /\ UNCHANGED <<cfg, callVars, tools, kit, calls>>

\* toolkit.getTools(): the caller gets the array it returns
GetTools ==
    /\ Len(wrappers) + Len(tools) <= MaxWrappers
    /\ outcome' = Ret(getTools(kit, tools))
    /\ wrappers' = wrappers \o getTools(kit, tools)
    /\ UNCHANGED <<cfg, pc, call, sent, timer, trace, nfetch, tools, kit, calls>>

\* the caller assigns to a property of a tool it has wrapped
SetToolProperty ==
    /\ \E w \in 1..Len(wrappers), p \in ToolProps :
          /\ tools[wrappers[w].tool][p] # Assigned(p)
          /\ tools' = [tools EXCEPT ![wrappers[w].tool][p] = Assigned(p)]
    /\ UNCHANGED <<cfg, callVars, kit, wrappers, calls>>

ToolkitNext ==
    \/ WrapGovernedTool
    \/ NewGovernedTool
    \/ GetTools
    \/ SetToolProperty

ToolkitSpec == ToolkitInit /\ [][ToolkitNext]_vars

-----------------------------------------------------------------------------
(* Calls in flight at once on one client (src/src/client.ts:129-197, 241-308) *)
(*                                                                           *)
(* Every call has its own locals (action, h, controller, timer, response).   *)
(* A call awaits fetch; the Gateway answers, the transport fails or the      *)
(* call's timer fires; the continuation of the call is then queued and runs  *)
(* when the event loop reaches it, other calls' steps coming in between.     *)

\* the calls made at once
ConcurrentCalls ==
    {MkCall("check", a, Undefined, <<>>) : a \in Actions}
    \cup { MkCall("request", "write:secrets", Undefined,
                  [method |-> "GET", path |-> "/api/users", init |-> NoInit]),
           MkCall("isHealthy", Undefined, Undefined, <<>>) }

\* the calls whose timers are followed to the end of the call
TimedCalls ==
    { MkCall("check", "read:contacts", Undefined, <<>>),
      MkCall("request", "write:secrets", Undefined,
             [method |-> "GET", path |-> "/api/users", init |-> NoInit]),
      MkCall("isHealthy", Undefined, Undefined, <<>>) }

\* the Gateway's answers to them: allow, deny, error
ConcurrentResponses ==
    { Response(200, "{\"policy\":\"default\"}"),
      Response(403, "{\"policy\":\"strict\",\"rule\":\"no-contacts\",\"message\":\"Denied\"}"),
      Response(401, "") }

\* the request a call hands to fetch
requestOf(c, cl) ==
    CASE cl.op = "check" -> checkRequest(c, cl.action, cl.resource)
      [] cl.op = "request" ->
            requestRequest(c, cl.x.method, cl.x.path, cl.action, cl.x.init)
      [] cl.op = "isHealthy" -> healthRequest(c)

\* a call not made yet
IdleCall ==
    [pc |-> "idle", call |-> NoCall, req |-> <<>>, timer |-> "none",
     fr |-> NoOutcome, outcome |-> NoOutcome, overlapped |-> FALSE]

\* one AbortController kept by the client: aborting it aborts every pending request
Aborted_Shared(cs, i) ==
    [j \in DOMAIN cs |->
        IF cs[j].pc = "waiting"
        THEN [cs[j] EXCEPT !.pc = "settled", !.timer = "fired", !.fr = Thr(AbortError)]
        ELSE cs[j]]

\* controller.abort() of call i: its own fetch rejects
Aborted(cs, i) ==
    [cs EXCEPT ![i].pc = "settled", ![i].timer = "fired", ![i].fr = Thr(AbortError)]

\* the action kept in a field of the client, which the latest check overwrites
Locals_Shared(cs, i) ==
    IF cs[i].call.op # "check" THEN cs[i].call
    ELSE [cs[i].call EXCEPT !.action =
             cs[CHOOSE j \in DOMAIN cs :
                   /\ cs[j].call.op = "check"
                   /\ \A k \in DOMAIN cs : cs[k].call.op = "check" => k <= j].call.action]

\* the parameters and locals the continuation of call i reads
Locals(cs, i) == cs[i].call

\* the calls other than i that are awaiting fetch or their continuation
InFlight(cs, i) == {j \in DOMAIN cs \ {i} : cs[j].pc \in {"waiting", "settled"}}

ConcurrentInit ==
    /\ AtRest(DefaultClient)
    /\ pc = "idle"
    /\ call = NoCall
    /\ outcome = NoOutcome
    /\ tools = <<>>
    /\ kit = <<>>
    /\ wrappers = <<>>
    /\ calls = [i \in 1..MaxCalls |-> IdleCall]

\* a method is called: it runs up to its await of fetch, with its timer armed
ConcurrentCall(i, made) ==
    /\ calls[i].pc = "idle"
    /\ \E cl \in made :
          calls' = [calls EXCEPT ![i] =
                       [IdleCall EXCEPT !.pc = "waiting", !.call = cl,
                                        !.req = requestOf(cfg, cl), !.timer = "armed"]]
    /\ nfetch' = nfetch + 1
    /\ UNCHANGED <<cfg, pc, call, sent, timer, trace, outcome, toolVars>>

\* the Gateway answers the request of call i: its fetch resolves and the
\* finally clause clears its timer before any timer can run
ConcurrentDeliver(i) ==
    /\ calls[i].pc = "waiting"
    /\ \E resp \in ConcurrentResponses :
          calls' = [calls EXCEPT ![i].pc = "settled", ![i].timer = "cleared",
                                 ![i].fr = Ret(resp)]
    /\ UNCHANGED <<cfg, callVars, toolVars>>

\* the transport fails the request of call i
ConcurrentFail(i) ==
    /\ calls[i].pc = "waiting"
    /\ calls' = [calls EXCEPT ![i].pc = "settled", ![i].timer = "cleared",
                              ![i].fr = Thr(NetworkError)]
    /\ UNCHANGED <<cfg, callVars, toolVars>>

\* the timer of call i fires while its request is pending
ConcurrentTimeout(i) ==
    /\ calls[i].pc = "waiting"
    /\ calls[i].timer = "armed"
    /\ calls' = Aborted(calls, i)
    /\ UNCHANGED <<cfg, callVars, toolVars>>

\* the continuation of call i runs to its end
ConcurrentResume(i) ==
    /\ calls[i].pc = "settled"
    /\ calls' = [calls EXCEPT
                    ![i].pc = "done",
                    ![i].overlapped = InFlight(calls, i) # {},
                    ![i].outcome =
                        Continue(cfg, Locals(calls, i), calls[i].fr,
                                 [k |-> "return", v |-> 42],
                                 [k |-> "resolve", v |-> "tool-result"],
                                 [k |-> "return", v |-> "blocked"]).out]
    /\ UNCHANGED <<cfg, callVars, toolVars>>

ConcurrentNext ==
    \E i \in 1..MaxCalls :
        \/ ConcurrentCall(i, ConcurrentCalls)
        \/ ConcurrentDeliver(i)
        \/ ConcurrentFail(i)
        \/ ConcurrentTimeout(i)
        \/ ConcurrentResume(i)

ConcurrentSpec == ConcurrentInit /\ [][ConcurrentNext]_vars

TimedNext ==
    \E i \in 1..MaxCalls :
        \/ ConcurrentCall(i, TimedCalls)
        \/ ConcurrentDeliver(i)
        \/ ConcurrentFail(i)
        \/ ConcurrentTimeout(i)
        \/ ConcurrentResume(i)

\* a queued continuation is run by the event loop
ConcurrentFairSpec ==
    /\ ConcurrentInit
    /\ [][TimedNext]_vars
    /\ \A i \in 1..MaxCalls : WF_vars(ConcurrentResume(i))

-----------------------------------------------------------------------------
(* Reading the trace of the call in progress *)

Wrappers == {"governedTool", "GovernedTool"}

\* the positions of the events called name
EvAt(name) == {i \in 1..Len(trace) : trace[i].ev = name}

\* fetch has settled in this call
FetchSettled == pc = "done" /\ sent # <<>>

\* what fetch settled to
FetchResult ==
    LET i == CHOOSE j \in 1..Len(trace) : trace[j].ev \in {"response", "fetchfail", "abort"}
    IN  IF trace[i].ev = "response" THEN Ret(trace[i].d) ELSE Thr(trace[i].d)

\* the Gateway answered this call
Answered == pc = "done" /\ EvAt("response") # {}

\* the Gateway's answer
Answer == trace[CHOOSE j \in EvAt("response") : TRUE].d

\* property f of the body when the body is a JSON object that has it
BodyField(text, f) ==
    IF IsJson(text) /\ JSONparse(text).t = "object" /\ f \in DOMAIN JSONparse(text).o
    THEN JSONparse(text).o[f]
    ELSE Undefined

Returned == outcome.kind = "return"

Threw(name) == outcome.kind = "throw" /\ outcome.err.name = name

-----------------------------------------------------------------------------
(* Claims *)

\* C1: whatever the action and the status of the answer to GET /proxy/check,
\* check returns an allow decision iff the status is 200, returns a deny
\* decision iff the status is 403, and throws for every other status.
C1_CheckDecidesByStatus ==
    (Answered /\ call.op = "check") =>
        /\ (Returned /\ outcome.val.allowed) <=> Answer.status = 200
        /\ (Returned /\ ~outcome.val.allowed) <=> Answer.status = 403
        /\ Answer.status \notin {200, 403} => outcome.kind = "throw"

\* C2: for a 403 answer with any body, check does not throw and returns a deny
\* decision whose policy, rule and reason are the body's policy, rule and
\* message, unset when absent.
C2_CheckNeverThrowsOnDenial ==
    (Answered /\ call.op = "check" /\ Answer.status = 403) =>
        /\ Returned
        /\ ~outcome.val.allowed
        /\ outcome.val.policy = BodyField(Answer.text, "policy")
        /\ outcome.val.rule = BodyField(Answer.text, "rule")
        /\ outcome.val.reason = BodyField(Answer.text, "message")

\* C3: enforce throws PolicyDeniedError iff check, given what fetch settled to
\* in this call, returns a deny decision; when check returns an allow, enforce
\* returns that decision, and when check throws, enforce throws that error.
C3_EnforceFollowsCheck ==
    (FetchSettled /\ call.op = "enforce") =>
        /\ Threw("PolicyDeniedError")
              <=> /\ check(cfg, call.action, FetchResult).kind = "return"
                  /\ ~check(cfg, call.action, FetchResult).val.allowed
        /\ ~Threw("PolicyDeniedError") => outcome = check(cfg, call.action, FetchResult)

\* an enforce call that ended in a denial
C3_Witness == FetchSettled /\ call.op = "enforce" /\ Threw("PolicyDeniedError")

C5_AdminWithoutTokenSendsNothing ==
    (call.op \in AdminOps /\ cfg.adminToken = Undefined) =>
        /\ pc = "done"
        /\ sent = <<>>
        /\ EvAt("fetch") = {}
        /\ Threw("AuthenticationError")

\* an admin operation refused on a client that has sent requests before
C5_Witness ==
    /\ pc = "done" /\ call.op \in AdminOps /\ cfg.adminToken = Undefined
    /\ nfetch > 0

\* C6: an invocation of a governed tool calls enforce first and once, with the
\* wrapper's action; the tool is invoked at most once, only after enforce
\* returned an allow, with the caller's arguments, and what it returns is what
\* the caller gets; when enforce fails the tool is not invoked.
C6_ToolRunsAfterEnforce ==
    (call.op \in Wrappers) =>
        /\ trace[1] = Ev("enforce", call.action)
        /\ Cardinality(EvAt("enforce")) = 1
        /\ pc = "waiting" => EvAt("tool") = {}
        /\ pc = "done" =>
              /\ Cardinality(EvAt("enforced")) = 1
              /\ Cardinality(EvAt("tool")) <= 1
              /\ \A i \in EvAt("tool") :
                    /\ \E j \in EvAt("enforced") :
                          j < i /\ trace[j].d.kind = "return" /\ trace[j].d.val.allowed
                    /\ trace[i].d.args = call.x.args
                    /\ trace[i].d.beh.k \in {"resolve", "reject"}
                          => outcome = Settle(trace[i].d.beh)
              /\ (\E j \in EvAt("enforced") : trace[j].d.kind = "throw")
                    => EvAt("tool") = {}

\* a governed invocation that was allowed and returned the tool's result
C6_Witness ==
    /\ pc = "done" /\ call.op \in Wrappers
    /\ EvAt("tool") # {} /\ Returned /\ outcome.val = "tool-result"

\* C7: when enforce fails in a governed invocation, the handler is called, with
\* the error and the caller's arguments, iff the error is a PolicyDeniedError
\* and a handler was supplied, and the caller then gets what the handler gave;
\* otherwise the handler is not called and the caller gets the error.
C7_HandlerOnlyOnDenial ==
    (pc = "done" /\ call.op \in Wrappers) =>
        \A j \in EvAt("enforced") :
            trace[j].d.kind = "throw" =>
                IF IsPolicyDenied(trace[j].d.err) /\ call.x.onDeny
                THEN /\ Cardinality(EvAt("onDeny")) = 1
                     /\ \A i \in EvAt("onDeny") :
                           /\ j < i
                           /\ trace[i].d.err = trace[j].d.err
                           /\ trace[i].d.args = call.x.args
                           /\ outcome = Settle(trace[i].d.beh)
                ELSE /\ EvAt("onDeny") = {}
                     /\ outcome = trace[j].d

\* a denial turned into the handler's result
C7_Witness ==
    /\ pc = "done" /\ call.op \in Wrappers
    /\ \E j \in EvAt("enforced") : trace[j].d.kind = "throw"
    /\ EvAt("onDeny") # {} /\ Returned /\ outcome.val = "blocked"

\* C8: the request that request sends carries X-MeshGuard-Action equal to the
\* action argument and X-MeshGuard-Trace-ID equal to the client's traceId,
\* whatever headers the caller supplied.
C8_CallerHeadersNeverOverride ==
    (call.op = "request" /\ sent # <<>>) =>
        /\ WireValue(sent[1].headers, "x-meshguard-action") = << <<call.action>> >>
        /\ WireValue(sent[1].headers, "x-meshguard-trace-id") = << <<cfg.traceId>> >>

\* C9: on check, request and every admin operation the failure kind depends on
\* the status alone: 401 AuthenticationError, 429 RateLimitError, 403
\* PolicyDeniedError (except on check), any other status >= 400
\* MeshGuardError; below 400 no error, and request returns the response.
C9_FailureKindByStatus ==
    (Answered /\ call.op \in {"check", "request"} \cup AdminOps) =>
        /\ Answer.status = 401 => Threw("AuthenticationError")
        /\ Answer.status = 429 => Threw("RateLimitError")
        /\ (Answer.status = 403 /\ call.op # "check") => Threw("PolicyDeniedError")
        /\ (Answer.status >= 400 /\ Answer.status \notin {401, 403, 429})
              => Threw("MeshGuardError")
        /\ Answer.status < 400 => Returned
        /\ (Answer.status < 400 /\ call.op = "request")
              => /\ outcome.val.status = Answer.status
                 /\ outcome.val.text = Answer.text

\* C10: a PolicyDeniedError raised by enforce, govern, a governed tool or
\* request carries the action the caller passed, the policy and rule of the
\* 403 body, and as reason the body's message or "Access denied by policy".
C10_DeniedErrorCarriesCallerAction ==
    ( /\ Answered
      /\ call.op \in {"enforce", "govern", "request"} \cup Wrappers
      /\ EvAt("tool") = {}
      /\ Threw("PolicyDeniedError") ) =>
        /\ outcome.err.action = call.action
        /\ outcome.err.policy = BodyField(Answer.text, "policy")
        /\ outcome.err.rule = BodyField(Answer.text, "rule")
        /\ outcome.err.reason =
              IF BodyField(Answer.text, "message") = Undefined THEN DefaultReason
              ELSE BodyField(Answer.text, "message")

\* C11: every request the client hands to fetch (check, request, the admin
\* operations, health and isHealthy) carries X-MeshGuard-Trace-ID with the
\* client's traceId as its only value.
C11_EveryRequestCarriesTraceId ==
    (sent # <<>>) =>
        \A i \in 1..Len(sent) :
            WireValue(sent[i].headers, "x-meshguard-trace-id") = << <<cfg.traceId>> >>

\* C12: a decision returned by check or enforce has allowed = TRUE iff its
\* decision is "allow", carries the action argument of the call, and carries
\* the client's traceId, whatever the Gateway's answer says.
C12_DecisionInvariants ==
    (pc = "done" /\ call.op \in {"check", "enforce"} /\ Returned) =>
        /\ outcome.val.allowed \in BOOLEAN
        /\ outcome.val.decision \in {"allow", "deny"}
        /\ outcome.val.allowed <=> outcome.val.decision = "allow"
        /\ outcome.val.action = call.action
        /\ outcome.val.traceId = cfg.traceId

\* a deny decision returned for an answer whose body names another action
\* and another trace id
C12_Witness ==
    /\ pc = "done" /\ call.op = "check" /\ Returned /\ ~outcome.val.allowed
    /\ Answered
    /\ BodyField(Answer.text, "action") = "other"
    /\ BodyField(Answer.text, "traceId") = "gw-9"

\* C13: isHealthy never throws; it returns TRUE iff the Gateway answered and
\* the status property of the answer's body is "healthy", and FALSE for every
\* other answer, for a body that does not parse, for a transport failure and
\* for a timeout.
C13_IsHealthyNeverThrows ==
    (pc = "done" /\ call.op = "isHealthy") =>
        /\ Returned
        /\ outcome.val \in BOOLEAN
        /\ outcome.val <=> (Answered /\ BodyField(Answer.text, "status") = "healthy")

\* isHealthy gave FALSE for a request the transport failed
C13_Witness ==
    /\ pc = "done" /\ call.op = "isHealthy"
    /\ EvAt("fetchfail") # {} /\ outcome = Ret(FALSE)

\* the positions at which an attempt of this call came to its end
Attempts == EvAt("response") \cup EvAt("fetchfail") \cup EvAt("abort")

\* the single attempt of this call failed: an error status, a transport
\* failure or a timeout
AttemptFailed ==
    /\ FetchSettled
    /\ FetchResult.kind = "return" => FetchResult.val.status >= 400

\* C18: a call of check, enforce, govern, request or an admin operation hands
\* at most one request to fetch; once that attempt has ended the call is over,
\* and when the attempt failed the caller gets the failure (check answers a
\* 403 with its deny decision), fn is not run and no second request is sent.
C18_NoRetry ==
    (call.op \in {"check", "enforce", "govern", "request"} \cup AdminOps) =>
        /\ Len(sent) <= 1
        /\ Cardinality(EvAt("fetch")) <= 1
        /\ Cardinality(Attempts) <= 1
        /\ Attempts # {} => pc = "done"
        /\ AttemptFailed =>
              /\ EvAt("fn") = {}
              /\ \/ outcome.kind = "throw"
                 \/ /\ call.op = "check" /\ FetchResult.kind = "return"
                    /\ FetchResult.val.status = 403 /\ ~outcome.val.allowed
              /\ FetchResult.kind = "throw" => outcome = FetchResult

\* a request answered 500 ended in MeshGuardError after its one attempt
C18_Witness ==
    /\ pc = "done" /\ call.op = "request" /\ Answered /\ Answer.status = 500
    /\ Threw("MeshGuardError") /\ Len(sent) = 1

\* C20: in one invocation of a governed tool the handler is called at most
\* once and only when the wrapper's enforce raised PolicyDeniedError; it is
\* never called in an invocation in which the tool was invoked, and an error
\* the tool raises, a PolicyDeniedError included, is what the caller gets.
C20_HandlerOnlyForOwnDenial ==
    (pc = "done" /\ call.op \in Wrappers) =>
        /\ Cardinality(EvAt("onDeny")) <= 1
        /\ EvAt("onDeny") # {} =>
              /\ EvAt("tool") = {}
              /\ \E j \in EvAt("enforced") :
                    trace[j].d.kind = "throw" /\ IsPolicyDenied(trace[j].d.err)
        /\ \A i \in EvAt("tool") :
              trace[i].d.beh.k \in {"reject", "throw"}
                  => outcome = Thr(trace[i].d.beh.e)

\* a policy or a rule is given when it is a non-empty string
Given(v) == v \notin {Undefined, ""}

\* C17: the message of a constructed PolicyDeniedError is "Action '", the
\* action, "' denied", then " by policy '", the policy, "'" when a policy is
\* given, then " (rule: ", the rule, ")" when a rule is given, then ": " and
\* the reason, which is "Access denied by policy" when the options have no
\* reason; nothing else is in it, so the four values come in that order.
C17_MessageComposition ==
    (pc = "done" /\ call.op = "new PolicyDeniedError") =>
        LET m == outcome.val.message
            n == Len(m)
            np == IF Given(call.x.policy) THEN 3 ELSE 0
            nr == IF Given(call.x.rule) THEN 3 ELSE 0
            reason == IF call.x.reason = Undefined THEN "Access denied by policy"
                      ELSE call.x.reason
        IN  /\ n = 3 + np + nr + 2
            /\ m[1] = "Action '" /\ m[2] = call.action /\ m[3] = "' denied"
            /\ Given(call.x.policy) =>
                  m[4] = " by policy '" /\ m[5] = call.x.policy /\ m[6] = "'"
            /\ Given(call.x.rule) =>
                  /\ m[4 + np] = " (rule: "
                  /\ m[5 + np] = call.x.rule
                  /\ m[6 + np] = ")"
            /\ m[n - 1] = ": " /\ m[n] = reason
            /\ outcome.val.reason = reason
            /\ outcome.val.action = call.action

\* the error of the repository's test: all four values given
C17_Witness ==
    /\ pc = "done" /\ call.op = "new PolicyDeniedError"
    /\ call.action = "write:email" /\ call.x.policy = "strict"
    /\ call.x.rule = "no-email" /\ call.x.reason = "Email sending blocked"
    /\ outcome.val.message =
          <<"Action '", "write:email", "' denied", " by policy '", "strict", "'",
            " (rule: ", "no-email", ")", ": ", "Email sending blocked">>

\* C14: the array getTools returns has one wrapper per tool of the toolkit, in
\* the order of the tools; the wrapper of a tool enforces the entry of the
\* action map under the tool's name when the map has one, and otherwise the
\* default action, which is "execute:tool" when the options name none.
C14_GetToolsMapsActions ==
    (outcome.kind = "return" /\ call.op = "new GovernedToolkit") =>
        LET g == outcome.val
            map == IF "actionMap" \in DOMAIN call.x THEN call.x.actionMap ELSE <<>>
            default == IF "defaultAction" \in DOMAIN call.x THEN call.x.defaultAction
                       ELSE "execute:tool"
        IN  /\ Len(g) = Len(tools)
            /\ \A i \in 1..Len(g) :
                  /\ g[i].tool = i
                  /\ g[i].action = IF g[i].name \in DOMAIN map THEN map[g[i].name]
                                   ELSE default

\* C15: reading a property other than invoke and call on a governed wrapper
\* gives the value the wrapped tool has for it now, for the wrappers of
\* governedTool, of new GovernedTool and of getTools.
C15_WrapperIsTransparent ==
    \A w \in 1..Len(wrappers) : \A p \in ToolProps :
        ReadProperty(wrappers[w], tools, p) = tools[wrappers[w].tool][p]

\* what check call k, now over, owes to its own response and its own action
OwnOutcome(k) ==
    /\ k.fr.kind = "throw" => k.outcome = k.fr
    /\ k.fr.kind = "return" =>
          /\ k.fr.val.status = 200 =>
                /\ k.outcome.kind = "return"
                /\ k.outcome.val.allowed /\ k.outcome.val.decision = "allow"
                /\ k.outcome.val.policy = BodyField(k.fr.val.text, "policy")
          /\ k.fr.val.status = 403 =>
                /\ k.outcome.kind = "return"
                /\ ~k.outcome.val.allowed /\ k.outcome.val.decision = "deny"
                /\ k.outcome.val.policy = BodyField(k.fr.val.text, "policy")
                /\ k.outcome.val.rule = BodyField(k.fr.val.text, "rule")
                /\ k.outcome.val.reason = BodyField(k.fr.val.text, "message")
          /\ k.fr.val.status = 401 =>
                /\ k.outcome.kind = "throw"
                /\ k.outcome.err.name = "AuthenticationError"
    /\ k.outcome.kind = "return" =>
          /\ k.outcome.val.action = k.call.action
          /\ k.outcome.val.traceId = cfg.traceId

\* C16: with several calls in flight on one client and their answers coming
\* in any order, every check call ends with the outcome its own response and
\* its own action give, and no step changes the client's configuration.
C16_ConcurrentChecksIndependent ==
    /\ [](\A i \in 1..MaxCalls :
            (calls[i].pc = "done" /\ calls[i].call.op = "check")
                => OwnOutcome(calls[i]))
    /\ [][cfg' = cfg]_vars

\* two checks of different actions, the first denied while the second was in
\* flight, the second allowed
C16_Witness ==
    /\ calls[1].pc = "done" /\ calls[1].call.op = "check"
    /\ calls[2].pc = "done" /\ calls[2].call.op = "check"
    /\ calls[1].call.action # calls[2].call.action
    /\ calls[1].overlapped
    /\ calls[1].outcome.kind = "return" /\ ~calls[1].outcome.val.allowed
    /\ calls[2].outcome.kind = "return" /\ calls[2].outcome.val.allowed

\* the timer of call i has fired
TimedOut(i) == calls[i].timer = "fired"

TypedErrors == {"AuthenticationError", "PolicyDeniedError", "RateLimitError"}

\* call i has rejected with a failure that is none of the typed errors
RejectedUntyped(i) ==
    /\ calls[i].pc = "done"
    /\ calls[i].outcome.kind = "throw"
    /\ calls[i].outcome.err.name \notin TypedErrors

\* C19 as stated, its final result: a call whose timer fired has rejected with
\* an untyped failure once it is over, and a request that completed has its
\* timer cleared.
C19_TimeoutAlwaysRejects ==
    \A i \in 1..MaxCalls :
        /\ (TimedOut(i) /\ calls[i].pc = "done") => RejectedUntyped(i)
        /\ calls[i].fr.kind = "return" => calls[i].timer = "cleared"

\* how a call whose timer fired ends: isHealthy with FALSE, any other call by
\* rejecting with the abort failure
TimeoutEnd(i) ==
    IF calls[i].call.op = "isHealthy"
    THEN calls[i].pc = "done" /\ calls[i].outcome = Ret(FALSE)
    ELSE RejectedUntyped(i) /\ calls[i].outcome = Thr(AbortError)

\* C19 (amended): every request has its own timer.  When the timer of a
\* pending request fires, that request is aborted and no other call is
\* touched; the call then comes to its end, rejecting with the abort failure,
\* which is none of the typed errors and neither a deny nor an allow, except
\* isHealthy, which returns FALSE.  A request that completed has its timer
\* cleared, and a cleared timer never fires.
C19_TimerAbortsOwnRequestOnly ==
    /\ [](\A i \in 1..MaxCalls :
            /\ TimedOut(i) => calls[i].fr = Thr(AbortError)
            /\ (TimedOut(i) /\ calls[i].pc = "done") => TimeoutEnd(i)
            /\ calls[i].fr.kind = "return" => calls[i].timer = "cleared")
    /\ [][\A i \in 1..MaxCalls :
            /\ (TimedOut(i)' /\ ~TimedOut(i)) =>
                  /\ calls[i].pc = "waiting" /\ calls[i].timer = "armed"
                  /\ \A j \in 1..MaxCalls \ {i} : calls'[j] = calls[j]
            /\ calls[i].timer = "cleared" => calls'[i].timer = "cleared"]_vars
    /\ \A i \in 1..MaxCalls : TimedOut(i) ~> TimeoutEnd(i)

\* a check whose timer fired while another call was in flight has rejected
\* with the abort failure, and the other call has completed with its answer
C19_Witness ==
    /\ calls[1].call.op = "check" /\ TimedOut(1) /\ calls[1].overlapped
    /\ calls[1].outcome = Thr(AbortError)
    /\ calls[2].pc = "done" /\ calls[2].fr.kind = "return"
    /\ calls[2].timer = "cleared"

\* the same invocation made through the other wrapper: same client, action,
\* handler, arguments, enforcement outcome and behaviour of tool and handler
ViaOtherWrapper(cl, fr, toolBeh, denyBeh) ==
    IF cl.op = "GovernedTool" THEN governedTool(cfg, cl, fr, toolBeh, denyBeh)
    ELSE IF cl.x.prop = "call" THEN GovernedToolCall(cfg, cl, fr, toolBeh, denyBeh)
    ELSE GovernedToolInvoke(cfg, cl, fr, toolBeh, denyBeh)

\* what this invocation did once fetch had settled
AfterFetch ==
    SubSeq(trace,
           1 + (CHOOSE j \in 1..Len(trace) :
                   trace[j].ev \in {"response", "fetchfail", "abort"}),
           Len(trace))

\* C21: an invocation (invoke or call) through governedTool and the same
\* invocation through GovernedTool make the same calls in the same order
\* (enforce, then the same method of the tool or the handler, with the same
\* arguments) and give the caller the same result or error.
C21_WrappersEquivalent ==
    (pc = "done" /\ call.op \in Wrappers) =>
        \A tb \in ToolBehaviours, db \in DenyChoices(call) :
            ( /\ \A i \in EvAt("tool") : trace[i].d.beh = tb
              /\ \A i \in EvAt("onDeny") : trace[i].d.beh = db )
            => /\ ViaOtherWrapper(call, FetchResult, tb, db).out = outcome
               /\ ViaOtherWrapper(call, FetchResult, tb, db).ev = AfterFetch

=============================================================================
